---- MODULE Spec2Model ----
(***************************************************************************)
(* Model of the OpenWebUI bulk model updater.  Three script variants share *)
(* one design: resolve the configuration, discover the model list through  *)
(* a sequence of candidate listing paths, and rewrite base_model_id of     *)
(* every record through one or two update POSTs.                           *)
(*   "simple"     src/update-models.py                      (sequential)   *)
(*   "remote"     src/update-remotely/batch-model-updater.py               *)
(*   "serverside" src/serverside-script/batch-model-updater.py             *)
(***************************************************************************)
EXTENDS Integers, Sequences, FiniteSets, TLC

\* Longest listing the environment answers with.
MaxRecords == 3

\* DEFAULT_CONFIG["max_workers"] of the two batch-capable variants.
RemoteDefaultWorkers == 5
ServersideDefaultWorkers == 10

Variants == {"simple", "remote", "serverside"}

(***************************************************************************)
(* Python values.  What make_api_call returns is a tagged value: None on a *)
(* transport failure, the body text when it is not JSON, otherwise the     *)
(* parsed JSON list or dict.  The fields of a dict are a function from     *)
(* keys to values.  JSON null inside a record is the string PyNone.        *)
(***************************************************************************)
PyNone == "<None>"
JNone == [t |-> "none", v |-> <<>>]
JText(s) == [t |-> "text", v |-> s]
JList(seq) == [t |-> "list", v |-> seq]
JDict(f) == [t |-> "dict", v |-> f]

IsList(x) == x.t = "list"
IsDict(x) == x.t = "dict"

\* Python truthiness: None, "", [] and {} are falsy.
Truthy(x) ==
    CASE x.t = "none" -> FALSE
      [] x.t = "text" -> x.v # ""
      [] x.t = "list" -> Len(x.v) > 0
      [] x.t = "dict" -> DOMAIN x.v # {}

\* dict.get(k, default) on the fields of a dict.
Get(d, k, default) == IF k \in DOMAIN d THEN d[k] ELSE default

\* d[k] = v on a copy of d.
Put(d, k, v) == [x \in DOMAIN d \cup {k} |-> IF x = k THEN v ELSE d[x]]

EmptyDict == [x \in {} |-> ""]

(***************************************************************************)
(* Configuration: DEFAULT_CONFIG overridden by the command-line flags.     *)
(* args.workers is [given, val]; args.no_batch is the store_true flag.     *)
(***************************************************************************)
RemoteTarget == "openrouter.microsoft/phi-4-multimodal-instruct"
ServersideTarget == "openrouter.google/gemini-2.5-pro-exp-03-25:free"

\* The process environment: each variable is unset or set to a value.
Unset == [set |-> FALSE, val |-> ""]
EnvGet(e, name, default) == IF e[name].set THEN e[name].val ELSE default
NoEnv ==
    [OPENWEBUI_API_KEY |-> Unset, CF_ACCESS_CLIENT_ID |-> Unset,
     CF_ACCESS_CLIENT_SECRET |-> Unset]

\* The simple variant has no batch_mode and no max_workers: its loop is
\* the sequential one, written here as batch_mode FALSE with one worker.
\* The serverside variant reads no environment and has no Cloudflare keys.
DEFAULT_CONFIG(variant, e) ==
    CASE variant = "simple" ->
           [openwebui_url |-> "https://chat.example.com",
            api_base_path |-> "/api/v1",
            target_model |-> RemoteTarget,
            api_key |-> EnvGet(e, "OPENWEBUI_API_KEY", "default_api_key"),
            cf_access_client_id |->
                EnvGet(e, "CF_ACCESS_CLIENT_ID", "default_client_id"),
            cf_access_client_secret |->
                EnvGet(e, "CF_ACCESS_CLIENT_SECRET", "default_client_secret"),
            debug |-> FALSE, batch_mode |-> FALSE, max_workers |-> 1]
      [] variant = "remote" ->
           [openwebui_url |-> "https://chat.example.com",
            api_base_path |-> "/api/v1",
            target_model |-> RemoteTarget,
            api_key |-> EnvGet(e, "OPENWEBUI_API_KEY", "default_api_key"),
            cf_access_client_id |->
                EnvGet(e, "CF_ACCESS_CLIENT_ID", "default_client_id"),
            cf_access_client_secret |->
                EnvGet(e, "CF_ACCESS_CLIENT_SECRET", "default_client_secret"),
            debug |-> FALSE, batch_mode |-> TRUE,
            max_workers |-> RemoteDefaultWorkers]
      [] variant = "serverside" ->
           [openwebui_url |-> "http://docker-ip-address-for-db-container-or-owui:8080",
            api_base_path |-> "/api/v1",
            default_target_model |-> ServersideTarget,
            api_key |-> "replace-with-your-key",
            debug |-> FALSE, batch_mode |-> TRUE,
            max_workers |-> ServersideDefaultWorkers]

\* The flags each parser declares, and the configuration key each sets.
\* --debug and --no-batch are store_true flags, the others carry a value.
ValueFlags == {"url", "api_path", "api_key", "cf_id", "cf_secret", "target_model",
               "workers"}
SwitchFlags == {"debug", "no_batch"}
Accepted(variant) ==
    CASE variant = "simple" ->
           {"url", "api_path", "target_model", "api_key", "cf_id", "cf_secret", "debug"}
      [] variant = "remote" -> ValueFlags \cup SwitchFlags
      [] variant = "serverside" ->
           {"url", "api_path", "api_key", "debug", "no_batch", "workers"}
FlagKey ==
    [url |-> "openwebui_url", api_path |-> "api_base_path", api_key |-> "api_key",
     cf_id |-> "cf_access_client_id", cf_secret |-> "cf_access_client_secret",
     target_model |-> "target_model", workers |-> "max_workers",
     debug |-> "debug", no_batch |-> "batch_mode"]

\* A flag that is not on the command line: argparse leaves None, or False
\* for a store_true flag.  val keeps the type of the flag's values.
Absent(flag) ==
    [given |-> FALSE,
     val |-> CASE flag = "workers" -> 0
               [] flag \in SwitchFlags -> FALSE
               [] OTHER -> PyNone]

\* "if args.x:" on the value argparse stored: None, "" and 0 are falsy.
ArgTruthy(flag, arg) ==
    /\ arg.given
    /\ IF flag = "workers" THEN arg.val # 0 ELSE arg.val # ""

\* "if args.x: config[key] = args.x"
ApplyFlag(c, flag, a) ==
    IF ArgTruthy(flag, a[flag]) THEN [c EXCEPT ![FlagKey[flag]] = a[flag].val] ELSE c

\* "if args.debug: config['debug'] = True" and
\* "if args.no_batch: config['batch_mode'] = False"
ApplySwitch(c, flag, a) ==
    IF a[flag].given
    THEN [c EXCEPT ![FlagKey[flag]] = (flag = "debug")]
    ELSE c

\* __main__: a copy of DEFAULT_CONFIG, then one "if args.x:" per flag of
\* the variant's parser.  a maps every flag to what was given for it; a
\* flag the parser does not declare is never given.
RECURSIVE ApplyAll(_, _, _, _)
ApplyAll(c, flags, a, variant) ==
    IF flags = <<>> THEN c
    ELSE LET flag == Head(flags)
             c1 == IF flag \notin Accepted(variant) THEN c
                   ELSE IF flag \in SwitchFlags THEN ApplySwitch(c, flag, a)
                   ELSE ApplyFlag(c, flag, a)
         IN  ApplyAll(c1, Tail(flags), a, variant)

ResolveConfig(variant, e, a) ==
    ApplyAll(DEFAULT_CONFIG(variant, e),
             <<"url", "api_path", "api_key", "cf_id", "cf_secret", "target_model",
               "debug", "no_batch", "workers">>, a, variant)

\* The target the update uses: config['target_model'], or the literal that
\* the serverside update_models hardcodes.
TargetModel(variant, cfg) ==
    IF variant = "serverside" THEN ServersideTarget ELSE cfg.target_model

\* Whether update_models fans out over the thread pool.  The serverside
\* update_models never reads config['batch_mode'].
Parallel(variant, cfg) ==
    CASE variant = "simple" -> FALSE
      [] variant = "remote" -> cfg.batch_mode
      [] variant = "serverside" -> TRUE

\* A command line with no flag.
NoArgs == [flag \in ValueFlags \cup SwitchFlags |-> Absent(flag)]
Given(val) == [given |-> TRUE, val |-> val]

\* The command lines the runs are started with: --no-batch or not,
\* --workers 2 or not.  The simple parser has neither flag.
WorkerArgs == {Absent("workers"), Given(2)}
ArgChoices(variant) ==
    IF variant = "simple"
    THEN {NoArgs}
    ELSE {[NoArgs EXCEPT !["no_batch"] = nb, !["workers"] = w] :
            nb \in {Absent("no_batch"), Given(TRUE)}, w \in WorkerArgs}

(***************************************************************************)
(* The records the remote service may list.                                *)
(***************************************************************************)
Meta0 == [profile_image_url |-> "/img/custom.png", description |-> "custom",
          capabilities |-> [c \in {"vision"} |-> TRUE]]
Params0 == [p \in {"temperature"} |-> "0.7"]

Fields(id, name, base) ==
    [k \in {"id", "name", "base_model_id", "meta", "params", "owner"} |->
        CASE k = "id" -> id
          [] k = "name" -> name
          [] k = "base_model_id" -> base
          [] k = "meta" -> Meta0
          [] k = "params" -> Params0
          [] k = "owner" -> "user-1"]

Restrict(f, S) == [k \in S |-> f[k]]

\* In order: a full record already at the target, a full record to update,
\* a minimal record to update, a record without id, one with the sentinel
\* id (at the target), one with a null id, and an entry that is no dict.
Pool(target) == <<
    JDict(Fields("a", "Alpha", target)),
    JDict(Fields("b", "Beta", "old-model")),
    JDict(Restrict(Fields("c", "", "old-model"), {"id", "base_model_id"})),
    JDict(Restrict(Fields("", "Delta", "old-model"), {"name", "base_model_id"})),
    JDict(Restrict(Fields("unknown", "Echo", target), {"id", "name", "base_model_id"})),
    JDict(Restrict(Fields(PyNone, "Foxtrot", "old-model"), {"id", "name", "base_model_id"})),
    JText("junk") >>

RECURSIVE SeqOfIndices(_, _)
SeqOfIndices(pool, S) ==
    IF S = {} THEN <<>>
    ELSE LET m == CHOOSE x \in S : \A y \in S : x <= y
         IN  <<pool[m]>> \o SeqOfIndices(pool, S \ {m})

\* Every listing of at most MaxRecords pool entries, in pool order.
Listings(target) ==
    { SeqOfIndices(Pool(target), S) :
        S \in {T \in SUBSET (1..Len(Pool(target))) : Cardinality(T) <= MaxRecords} }

\* What a listing GET may answer.
ListingResponses(target) ==
    {JNone, JText("<html>Not Found</html>"),
     JDict([k \in {"detail"} |-> "Not authenticated"]),
     JDict([k \in {"models"} |-> JDict([e \in {"error"} |-> "unavailable"])])}
    \cup {JList(L) : L \in Listings(target)}
    \cup {JDict([k \in {"data"} |-> JList(L)]) : L \in Listings(target)}
    \cup {JDict([k \in {"models"} |-> JList(L)]) : L \in Listings(target)}

(***************************************************************************)
(* Endpoint discovery.  The discovery state is [idx, models_response,      *)
(* done]: idx listing GETs have been issued, models_response is the        *)
(* variable of that name, done says the loop has ended.                    *)
(***************************************************************************)
endpoints == <<"/models", "/models/", "/models/list", "/v1/models">>

HasCollectionKey(resp) == "models" \in DOMAIN resp.v \/ "data" \in DOMAIN resp.v

\* response.get('models', response.get('data', []))
GetModelsOrData(resp) == Get(resp.v, "models", Get(resp.v, "data", JList(<<>>)))

\* simple: one loop over all four endpoints; models_response stays None
\* until a response is accepted.
SimpleFetchStep(f, resp) ==
    CASE Truthy(resp) /\ IsList(resp) ->
           [idx |-> f.idx + 1, models_response |-> resp, done |-> TRUE]
      [] Truthy(resp) /\ IsDict(resp) /\ HasCollectionKey(resp) ->
           [idx |-> f.idx + 1, models_response |-> GetModelsOrData(resp), done |-> TRUE]
      [] OTHER ->
           [idx |-> f.idx + 1, models_response |-> f.models_response,
            done |-> f.idx + 1 = Len(endpoints)]

\* batch variants: the primary path is accepted only as a non-empty list.
PrimaryOk(resp) == Truthy(resp) /\ IsList(resp)

\* batch variants: a fallback path is accepted as a non-empty list or as a
\* dict with a models or data key.
FallbackOk(resp) ==
    Truthy(resp) /\ (IsList(resp) \/ (IsDict(resp) /\ HasCollectionKey(resp)))

\* batch variants: every GET overwrites models_response.
BatchFetchStep(f, resp) ==
    [idx |-> f.idx + 1, models_response |-> resp,
     done |-> IF f.idx = 0 THEN PrimaryOk(resp)
              ELSE FallbackOk(resp) \/ f.idx + 1 = Len(endpoints)]

FetchStep(v, f, resp) ==
    IF v = "simple" THEN SimpleFetchStep(f, resp) ELSE BatchFetchStep(f, resp)

FetchInit == [idx |-> 0, models_response |-> JNone, done |-> FALSE]

FetchFailedMsg == "Failed to fetch models from any endpoint"
NoModelsMsg == "No models found in the API response"

RECURSIVE SetToSeq(_)
SetToSeq(S) ==
    IF S = {} THEN <<>>
    ELSE LET x == CHOOSE y \in S : TRUE IN <<x>> \o SetToSeq(S \ {x})

\* The entries "for model in models" visits: the elements of a list, the
\* keys of a dict.
PyIter(x) ==
    CASE x.t = "list" -> x.v
      [] x.t = "dict" -> [i \in 1..Cardinality(DOMAIN x.v) |-> JText(SetToSeq(DOMAIN x.v)[i])]

\* simple: "if not models_response" is the fetch failure; a models_response
\* that is no list gives an empty models.  [models, error]
SimpleExtract(mr) ==
    IF ~Truthy(mr) THEN [models |-> <<>>, error |-> FetchFailedMsg]
    ELSE LET ms == IF IsList(mr) THEN mr.v ELSE <<>>
         IN  [models |-> ms, error |-> IF Len(ms) = 0 THEN NoModelsMsg ELSE ""]

\* Extraction without the "if model_count == 0" exit.
BatchExtract_NoCountCheck(mr) ==
    LET m == IF IsDict(mr) THEN GetModelsOrData(mr)
             ELSE IF IsList(mr) THEN mr ELSE JList(<<>>)
    IN  [models |-> PyIter(m), error |-> ""]

\* batch variants: extraction from whatever the last GET answered.
BatchExtract(mr) ==
    LET m == IF IsDict(mr) THEN GetModelsOrData(mr)
             ELSE IF IsList(mr) THEN mr ELSE JList(<<>>)
        ms == PyIter(m)
    IN  [models |-> ms, error |-> IF Len(ms) = 0 THEN NoModelsMsg ELSE ""]

ExtractModels(v, mr) == IF v = "simple" THEN SimpleExtract(mr) ELSE BatchExtract(mr)

(***************************************************************************)
(* Record transformation and update dispatch.                              *)
(***************************************************************************)
update_endpoints == <<"/models/model/update", "/models/update">>

\* model.get raises AttributeError on an entry that is no dict.
Raises(model) == ~IsDict(model)

ModelId(model) == Get(model.v, "id", "unknown")
ModelName(model) == Get(model.v, "name", "unknown")

\* The id check without the sentinel: only "model_id is None".
InvalidId_NoneOnly(model) == ModelId(model) = PyNone

\* "if model_id == 'unknown' or model_id is None"
InvalidId(model) == ModelId(model) = "unknown" \/ ModelId(model) = PyNone

\* "if current_base_model == target_model"
AtTarget(model, target) == Get(model.v, "base_model_id", "unknown") = target

DefaultMeta(model, target) ==
    [profile_image_url |-> "/static/favicon.png",
     description |-> ModelName(model) \o " using " \o target,
     capabilities |-> [c \in {} |-> TRUE]]

SetDefault(d, k, v) == IF k \in DOMAIN d THEN d ELSE Put(d, k, v)

\* A payload rebuilt from the five keys the tool knows, not from a copy.
BuildPayload_KnownKeysOnly(model, target) ==
    [k \in {"id", "name", "base_model_id", "meta", "params"} |->
        CASE k = "base_model_id" -> target
          [] k = "meta" -> Get(model.v, "meta", DefaultMeta(model, target))
          [] k = "params" -> Get(model.v, "params", EmptyDict)
          [] k = "name" -> ModelName(model)
          [] k = "id" -> ModelId(model)]

\* model.copy(), base_model_id overwritten, name/meta/params defaulted.
BuildPayload(model, target) ==
    LET p0 == Put(model.v, "base_model_id", target)
        p1 == SetDefault(p0, "name", ModelName(model))
        p2 == SetDefault(p1, "meta", DefaultMeta(model, target))
    IN  SetDefault(p2, "params", EmptyDict)

\* What an update POST for model_id may answer.
UpdateResponses(model_id) ==
    {JNone, JText("Internal Server Error"),
     JDict([k \in {"detail"} |-> "Method Not Allowed"]),
     JDict([k \in {"id"} |-> "someone-else"]),
     JDict([k \in {"id", "base_model_id"} |-> IF k = "id" THEN model_id ELSE "new"])}

\* The success check without the comparison of the id.
UpdateOk_AnyId(resp, model_id) ==
    Truthy(resp) /\ IsDict(resp) /\ "id" \in DOMAIN resp.v

\* "update_response and isinstance(update_response, dict) and
\*  update_response.get('id') == model_id"
UpdateOk(resp, model_id) ==
    Truthy(resp) /\ IsDict(resp) /\ Get(resp.v, "id", PyNone) = model_id

Post(i_endpoint, model, target) ==
    [endpoint |-> update_endpoints[i_endpoint], data |-> BuildPayload(model, target),
     id |-> ModelId(model)]

\* The answer is a JSON object whose id is the id the POST was made for.
Confirms(resp, id) == resp.t = "dict" /\ "id" \in DOMAIN resp.v /\ resp.v["id"] = id

\* A POST as the log of the run keeps it: the request, and whether its
\* answer confirmed the update.
Sent(post, resp) ==
    [endpoint |-> post.endpoint, data |-> post.data, id |-> post.id,
     confirmed |-> Confirms(resp, post.id)]

(***************************************************************************)
(* The run.                                                                *)
(*   env         the environment variables DEFAULT_CONFIG reads            *)
(*   pc          "main": __main__ has parsed the command line;             *)
(*               "fetch", "extract", "run", "done": where update_models    *)
(*               is; "crashed": an exception is leaving the "with" block   *)
(*   fetch       the discovery state                                       *)
(*   models      the entries "for model in models" visits                  *)
(*   st[i]       "queued", "retry" (first POST answered, not confirmed),   *)
(*               "update" (between the read and the write of self.n += n), *)
(*               "returned" (update_single_model has returned or raised),  *)
(*               "counted" (the orchestrator is past record i)             *)
(*   ret[i]      "none", "True", "False", "exc"                            *)
(*   posts[i]    the update POSTs issued for record i, in order            *)
(*   progress_n  the n of the progress bar; an update(1) is one step of    *)
(*               the action that makes it                                  *)
(*   tmp[i]      the n that the "self.n += n" of record i has read         *)
(*   errors      the ERROR lines logged                                    *)
(*   exit_code   -1 while the process runs, then its exit status           *)
(*   first_ok    history kept by the discovery on its own: the number of   *)
(*               the first GET answered with a recognizable collection,    *)
(*               and that answer                                           *)
(*   recognizable_seen   some listing GET has answered with a JSON list or *)
(*               with a mapping that has a models or data key              *)
(***************************************************************************)
VARIABLES variant, args, config, pc, fetch, models, st, ret, posts,
          successful_updates, failed_updates, skipped_updates, progress_n,
          errors, exit_code, recognizable_seen, twin, swap, tmp, env, first_ok

vars == <<variant, args, config, pc, fetch, models, st, ret, posts,
          successful_updates, failed_updates, skipped_updates, progress_n,
          errors, exit_code, recognizable_seen, twin, swap, tmp, env, first_ok>>

\* The second discovery of the paired runs, and the answer they differ on;
\* a single run leaves both alone, and the environment too.
aux == <<twin, swap, env, first_ok>>

target_model == TargetModel(variant, config)
Records == 1..Len(models)

Init ==
    /\ variant \in Variants
    /\ env = NoEnv
    /\ args \in ArgChoices(variant)
    /\ config = DEFAULT_CONFIG(variant, env)
    /\ pc = "main"
    /\ fetch = FetchInit
    /\ models = <<>>
    /\ st = <<>>
    /\ ret = <<>>
    /\ posts = <<>>
    /\ successful_updates = 0
    /\ failed_updates = 0
    /\ skipped_updates = 0
    /\ progress_n = 0
    /\ errors = {}
    /\ exit_code = -1
    /\ recognizable_seen = FALSE
    /\ twin = FetchInit
    /\ swap = [path |-> 0, list |-> <<>>]
    /\ tmp = <<>>
    /\ first_ok = [idx |-> 0, resp |-> JNone]

\* __main__ from "config = DEFAULT_CONFIG.copy()" to the call of
\* update_models.
ParseArgs ==
    /\ pc = "main"
    /\ config' = ResolveConfig(variant, env, args)
    /\ pc' = "fetch"
    /\ UNCHANGED <<aux, recognizable_seen, variant, args, fetch, models, st, ret,
                   posts, tmp, successful_updates, failed_updates, skipped_updates,
                   progress_n, errors, exit_code>>

\* A recognizable collection: a JSON list, or a mapping with a models or
\* data key.
Recognizable(resp) == IsList(resp) \/ (IsDict(resp) /\ HasCollectionKey(resp))

\* make_api_call("GET", endpoint) has answered resp: what the loop does
\* with the answer.  A transport failure is logged by make_api_call.
FetchAnswer(resp) ==
    /\ fetch' = FetchStep(variant, fetch, resp)
    /\ errors' = IF resp = JNone THEN errors \cup {"API call failed"} ELSE errors
    /\ recognizable_seen' = (recognizable_seen \/ Recognizable(resp))
    /\ pc' = IF fetch'.done THEN "extract" ELSE "fetch"
    /\ UNCHANGED <<variant, args, config, models, st, ret, posts, tmp,
                   successful_updates, failed_updates, skipped_updates, progress_n,
                   exit_code>>

\* One listing GET.
Fetch ==
    /\ pc = "fetch"
    /\ \E resp \in ListingResponses(target_model) : FetchAnswer(resp)
    /\ UNCHANGED aux

\* Extraction of models, the zero-record checks with sys.exit(1), and the
\* creation of the progress bar and the counters.
Extract ==
    /\ pc = "extract"
    /\ LET x == ExtractModels(variant, fetch.models_response) IN
         IF x.error # ""
         THEN /\ errors' = errors \cup {x.error}
              /\ exit_code' = 1
              /\ pc' = "done"
              /\ UNCHANGED <<models, st, ret, posts, tmp>>
         ELSE /\ models' = x.models
              /\ st' = [i \in 1..Len(x.models) |-> "queued"]
              /\ ret' = [i \in 1..Len(x.models) |-> "none"]
              /\ posts' = [i \in 1..Len(x.models) |-> <<>>]
              /\ tmp' = [i \in 1..Len(x.models) |-> 0]
              /\ pc' = "run"
              /\ UNCHANGED <<errors, exit_code>>
    /\ UNCHANGED <<aux, recognizable_seen, variant, args, config, fetch, successful_updates, failed_updates,
                   skipped_updates, progress_n>>

\* When record i may start.  Sequential: the loop is past every earlier
\* record.  Parallel: the pool hands out the submitted tasks in order, to at
\* most max_workers threads at a time.
CanBegin(i) ==
    IF Parallel(variant, config)
    THEN /\ \A j \in 1..(i - 1) : st[j] # "queued"
         /\ Cardinality({j \in Records : st[j] \in {"retry", "update"}})
              < config.max_workers
    ELSE \A j \in 1..(i - 1) : st[j] = "counted"

\* update_single_model from progress_bar.update(1) to its return of r.
\* "self.n += n" reads n and then writes it: with atomic_update the two are
\* one step, without it the read is taken here and the write is
\* ProgressWrite.
Complete(i, r, atomic_update) ==
    /\ ret' = [ret EXCEPT ![i] = r]
    /\ IF atomic_update
       THEN /\ st' = [st EXCEPT ![i] = "returned"]
            /\ progress_n' = progress_n + 1
            /\ tmp' = tmp
       ELSE /\ st' = [st EXCEPT ![i] = "update"]
            /\ tmp' = [tmp EXCEPT ![i] = progress_n]
            /\ progress_n' = progress_n

\* The write of "self.n += n".
ProgressWrite(i) ==
    /\ pc \in {"run", "crashed"}
    /\ st[i] = "update"
    /\ progress_n' = tmp[i] + 1
    /\ st' = [st EXCEPT ![i] = "returned"]
    /\ UNCHANGED <<aux, recognizable_seen, variant, args, config, pc, fetch, models,
                   ret, posts, tmp, successful_updates, failed_updates,
                   skipped_updates, errors, exit_code>>

\* update_single_model up to the answer of the first POST.  An entry that
\* is no dict raises: inside the future in parallel mode, and in sequential
\* mode already at "model_name = model.get('name', 'unknown')", which stands
\* before the try and so ends update_models.
UpdateSingleModelBegin(i, atomic_update) ==
    /\ pc \in {"run", "crashed"}
    /\ variant # "simple"
    /\ st[i] = "queued"
    /\ CanBegin(i)
    /\ LET model == models[i] IN
         CASE Raises(model) /\ ~Parallel(variant, config) ->
                /\ pc' = "done"
                /\ exit_code' = 1
                /\ UNCHANGED <<st, ret, posts, progress_n, tmp, errors>>
           [] Raises(model) /\ Parallel(variant, config) ->
                /\ st' = [st EXCEPT ![i] = "returned"]
                /\ ret' = [ret EXCEPT ![i] = "exc"]
                /\ UNCHANGED <<pc, exit_code, posts, progress_n, tmp, errors>>
           [] ~Raises(model) /\ InvalidId(model) ->
                /\ Complete(i, "False", atomic_update)
                /\ UNCHANGED <<pc, exit_code, posts, errors>>
           [] ~Raises(model) /\ ~InvalidId(model) /\ AtTarget(model, target_model) ->
                /\ Complete(i, "True", atomic_update)
                /\ UNCHANGED <<pc, exit_code, posts, errors>>
           [] OTHER ->
                \E resp \in UpdateResponses(ModelId(model)) :
                  /\ posts' = [posts EXCEPT ![i] =
                                 Append(@, Sent(Post(1, model, target_model), resp))]
                  /\ errors' = IF resp = JNone THEN errors \cup {"API call failed"}
                               ELSE errors
                  /\ IF UpdateOk(resp, ModelId(model))
                     THEN Complete(i, "True", atomic_update)
                     ELSE /\ st' = [st EXCEPT ![i] = "retry"]
                          /\ UNCHANGED <<ret, progress_n, tmp>>
                  /\ UNCHANGED <<pc, exit_code>>
    /\ UNCHANGED <<aux, recognizable_seen, variant, args, config, fetch, models,
                   successful_updates, failed_updates, skipped_updates>>

\* update_single_model from the second POST to its return.
UpdateSingleModelRetry(i, atomic_update) ==
    /\ pc \in {"run", "crashed"}
    /\ variant # "simple"
    /\ st[i] = "retry"
    /\ \E resp \in UpdateResponses(ModelId(models[i])) :
         /\ posts' = [posts EXCEPT ![i] =
                        Append(@, Sent(Post(2, models[i], target_model), resp))]
         /\ errors' = IF resp = JNone THEN errors \cup {"API call failed"} ELSE errors
         /\ Complete(i, IF UpdateOk(resp, ModelId(models[i])) THEN "True" ELSE "False",
                     atomic_update)
    /\ UNCHANGED <<aux, recognizable_seen, variant, args, config, pc, fetch, models,
                   successful_updates, failed_updates, skipped_updates, exit_code>>

\* The result loop with no counter for a False return of a record whose
\* base_model_id is not the target.
Tally_NoFailedBranch(r, model, target) ==
    CASE r = "exc" -> "failed"
      [] r = "True" -> "successful"
      [] r = "False" ->
           IF Get(model.v, "base_model_id", "unknown") = target
           THEN "skipped" ELSE "none"

\* The counter the orchestrator increments for a returned record.
Tally(r, model, target) ==
    CASE r = "exc" -> "failed"
      [] r = "True" -> "successful"
      [] r = "False" ->
           IF Get(model.v, "base_model_id", "unknown") = target
           THEN "skipped" ELSE "failed"

\* The body of the result loop (as_completed or the sequential for), run
\* by the orchestrating thread for one returned record.  Its first
\* statement, model.get('name', 'unknown'), stands before the try: for an
\* entry that is no dict it raises out of update_models, and the exit of
\* the "with" block then waits for the pool.
CollectResult(i) ==
    /\ pc = "run"
    /\ variant # "simple"
    /\ st[i] = "returned"
    /\ IF Raises(models[i])
       THEN /\ pc' = "crashed"
            /\ UNCHANGED <<st, successful_updates, skipped_updates, failed_updates,
                           errors>>
       ELSE /\ LET c == Tally(ret[i], models[i], target_model) IN
                 /\ successful_updates' =
                      successful_updates + IF c = "successful" THEN 1 ELSE 0
                 /\ skipped_updates' = skipped_updates + IF c = "skipped" THEN 1 ELSE 0
                 /\ failed_updates' = failed_updates + IF c = "failed" THEN 1 ELSE 0
            /\ errors' = IF ret[i] = "exc"
                         THEN errors \cup {"Exception updating model"} ELSE errors
            /\ st' = [st EXCEPT ![i] = "counted"]
            /\ pc' = pc
    /\ UNCHANGED <<aux, recognizable_seen, variant, args, config, fetch, models, ret,
                   posts, progress_n, tmp, exit_code>>

\* ThreadPoolExecutor.__exit__ after the exception: shutdown(wait=True) lets
\* every submitted task run, then the exception ends the process.
Abort ==
    /\ pc = "crashed"
    /\ \A i \in Records : st[i] \in {"returned", "counted"}
    /\ pc' = "done"
    /\ exit_code' = 1
    /\ UNCHANGED <<aux, recognizable_seen, variant, args, config, fetch, models, st,
                   ret, posts, progress_n, tmp, successful_updates, failed_updates,
                   skipped_updates, errors>>

\* simple: one iteration of "for model in models" up to the answer of the
\* first POST.  An entry that is no dict raises out of update_models.
SimpleProcess(i) ==
    /\ pc = "run"
    /\ variant = "simple"
    /\ st[i] = "queued"
    /\ CanBegin(i)
    /\ LET model == models[i] IN
         CASE Raises(model) ->
                /\ pc' = "done"
                /\ exit_code' = 1
                /\ UNCHANGED <<st, ret, posts, successful_updates, errors>>
           [] ~Raises(model) /\ InvalidId(model) ->
                /\ st' = [st EXCEPT ![i] = "counted"]
                /\ UNCHANGED <<pc, exit_code, ret, posts, successful_updates, errors>>
           [] OTHER ->
                \E resp \in UpdateResponses(ModelId(model)) :
                  /\ posts' = [posts EXCEPT ![i] =
                                 Append(@, Sent(Post(1, model, target_model), resp))]
                  /\ errors' = IF resp = JNone THEN errors \cup {"API call failed"}
                               ELSE errors
                  /\ IF UpdateOk(resp, ModelId(model))
                     THEN /\ st' = [st EXCEPT ![i] = "counted"]
                          /\ ret' = [ret EXCEPT ![i] = "True"]
                          /\ successful_updates' = successful_updates + 1
                     ELSE /\ st' = [st EXCEPT ![i] = "retry"]
                          /\ UNCHANGED <<ret, successful_updates>>
                  /\ UNCHANGED <<pc, exit_code>>
    /\ UNCHANGED <<aux, recognizable_seen, variant, args, config, fetch, models,
                   failed_updates, skipped_updates, progress_n, tmp>>

\* simple: the second pass of "for update_endpoint in update_endpoints".
SimpleRetry(i) ==
    /\ pc = "run"
    /\ variant = "simple"
    /\ st[i] = "retry"
    /\ \E resp \in UpdateResponses(ModelId(models[i])) :
         /\ posts' = [posts EXCEPT ![i] =
                        Append(@, Sent(Post(2, models[i], target_model), resp))]
         /\ IF UpdateOk(resp, ModelId(models[i]))
            THEN /\ ret' = [ret EXCEPT ![i] = "True"]
                 /\ successful_updates' = successful_updates + 1
                 /\ errors' = errors
            ELSE /\ ret' = [ret EXCEPT ![i] = "False"]
                 /\ successful_updates' = successful_updates
                 /\ errors' = (IF resp = JNone THEN errors \cup {"API call failed"}
                               ELSE errors) \cup {"Failed to update model"}
    /\ st' = [st EXCEPT ![i] = "counted"]
    /\ UNCHANGED <<aux, recognizable_seen, variant, args, config, pc, fetch, models,
                   failed_updates, skipped_updates, progress_n, tmp, exit_code>>

\* The summary; update_models returns and the process exits with status 0.
Finish ==
    /\ pc = "run"
    /\ \A i \in Records : st[i] = "counted"
    /\ pc' = "done"
    /\ exit_code' = 0
    /\ UNCHANGED <<aux, recognizable_seen, variant, args, config, fetch, models, st,
                   ret, posts, successful_updates, failed_updates, skipped_updates,
                   progress_n, tmp, errors>>

\* The run with progress_bar.update(1) taken as one step.
Next ==
    \/ ParseArgs
    \/ Fetch
    \/ Extract
    \/ \E i \in Records : UpdateSingleModelBegin(i, TRUE)
    \/ \E i \in Records : UpdateSingleModelRetry(i, TRUE)
    \/ \E i \in Records : CollectResult(i)
    \/ Abort
    \/ \E i \in Records : SimpleProcess(i)
    \/ \E i \in Records : SimpleRetry(i)
    \/ Finish

Spec == Init /\ [][Next]_vars

(***************************************************************************)
(* Paired discoveries.  Two discoveries of the same variant receive the    *)
(* same answers, except on path swap.path, where the first (fetch) is      *)
(* answered {"data": swap.list} and the second (twin) the bare list.       *)
(***************************************************************************)
PairInit ==
    /\ variant \in Variants
    /\ env = NoEnv
    /\ args = NoArgs
    /\ config = ResolveConfig(variant, env, args)
    /\ pc = "pair"
    /\ fetch = FetchInit
    /\ twin = FetchInit
    /\ swap \in [path : 1..Len(endpoints), list : Listings(TargetModel(variant, config))]
    /\ models = <<>>
    /\ st = <<>>
    /\ ret = <<>>
    /\ posts = <<>>
    /\ successful_updates = 0
    /\ failed_updates = 0
    /\ skipped_updates = 0
    /\ progress_n = 0
    /\ errors = {}
    /\ exit_code = -1
    /\ recognizable_seen = FALSE
    /\ tmp = <<>>
    /\ first_ok = [idx |-> 0, resp |-> JNone]

\* What the paths other than swap.path may answer to both discoveries.
OtherAnswers(target) ==
    {JNone, JText("<html>Not Found</html>"),
     JDict([k \in {"detail"} |-> "Not authenticated"]),
     JList(<<>>), JList(<<Pool(target)[2]>>),
     JDict([k \in {"models"} |-> JList(<<Pool(target)[3]>>)])}

PairFetch ==
    /\ pc = "pair"
    /\ ~(fetch.done /\ twin.done)
    /\ \E resp \in OtherAnswers(target_model) :
         /\ fetch' = IF fetch.done THEN fetch
                     ELSE FetchStep(variant, fetch,
                                    IF fetch.idx + 1 = swap.path
                                    THEN JDict([k \in {"data"} |-> JList(swap.list)])
                                    ELSE resp)
         /\ twin' = IF twin.done THEN twin
                    ELSE FetchStep(variant, twin,
                                   IF twin.idx + 1 = swap.path THEN JList(swap.list)
                                   ELSE resp)
    /\ UNCHANGED <<variant, args, config, pc, models, st, ret, posts, successful_updates,
                   failed_updates, skipped_updates, progress_n, errors, exit_code,
                   recognizable_seen, swap, tmp, env, first_ok>>

PairNext == PairFetch

PairSpec == PairInit /\ [][PairNext]_vars

(***************************************************************************)
(* Properties.                                                             *)
(***************************************************************************)
\* The id of a fetched record is missing or is the sentinel "unknown".
MissingOrSentinelId(model) ==
    IsDict(model) /\ ("id" \notin DOMAIN model.v \/ model.v["id"] = "unknown")

\* The base_model_id of a fetched record is the target already.
AlreadyAtTarget(model) ==
    IsDict(model) /\ "base_model_id" \in DOMAIN model.v
                  /\ model.v["base_model_id"] = target_model

\* A fetched record with a usable id.
ValidRecord(model) ==
    IsDict(model) /\ "id" \in DOMAIN model.v /\ model.v["id"] \notin {"unknown", PyNone}

\* C1: in every variant, no update POST is ever issued for a fetched record
\* whose base_model_id equals the target model before the run.
C1_NoPostAtTarget ==
    \A i \in Records : AlreadyAtTarget(models[i]) => posts[i] = <<>>

\* C2: every update POST carries every key of the fetched record other than
\* base_model_id with its value unchanged, and base_model_id equal to the
\* target model.
C2_PayloadPreservesFields ==
    \A i \in Records : \A n \in 1..Len(posts[i]) :
        LET data == posts[i][n].data IN
          /\ "base_model_id" \in DOMAIN data
          /\ data["base_model_id"] = target_model
          /\ \A k \in DOMAIN models[i].v \ {"base_model_id"} :
                k \in DOMAIN data /\ data[k] = models[i].v[k]

\* Both update paths have been posted to for a record that carries a key
\* the tool does not know, and for one that lacks name, meta and params.
C2_Witness ==
    /\ \E i \in Records : Len(posts[i]) = 2 /\ "owner" \in DOMAIN models[i].v
    /\ \E i \in Records : Len(posts[i]) = 2 /\ "meta" \notin DOMAIN models[i].v

\* C3: the summary of a batch-capable variant classifies every record by
\* outcome: skipped counts the records already at the target, updated the
\* records not at the target whose update was confirmed, failed the records
\* for which both update paths failed the success check.
C3_SummaryClassifies ==
    (/\ pc = "done" /\ exit_code = 0 /\ variant # "simple"
     /\ \A i \in Records : ValidRecord(models[i]))
    => /\ skipped_updates = Cardinality({i \in Records : AlreadyAtTarget(models[i])})
       /\ successful_updates =
            Cardinality({i \in Records : ~AlreadyAtTarget(models[i]) /\ ret[i] = "True"})
       /\ failed_updates =
            Cardinality({i \in Records : Len(posts[i]) = 2 /\ ret[i] = "False"})

\* C4: no network call of any kind is issued for a fetched record whose id
\* is missing or is the sentinel "unknown", in every variant and mode.
C4_NoCallForInvalidId ==
    \A i \in Records : MissingOrSentinelId(models[i]) => posts[i] = <<>>

\* The orchestrator is past a record without id in parallel mode, and past
\* one with the sentinel id.
C4_Witness ==
    /\ Parallel(variant, config)
    /\ \E i \in Records : st[i] = "counted" /\ IsDict(models[i])
                          /\ "id" \notin DOMAIN models[i].v
    /\ \E i \in Records : st[i] = "counted" /\ IsDict(models[i])
                          /\ "id" \in DOMAIN models[i].v /\ models[i].v["id"] = "unknown"

\* C5: a fetched record whose id is missing or is the sentinel increments
\* none of the three counters: the totals never exceed the number of
\* processed records that have an id.
C5_InvalidIdNotCounted ==
    successful_updates + skipped_updates + failed_updates
      <= Cardinality({i \in Records :
                        st[i] = "counted" /\ ~MissingOrSentinelId(models[i])})

\* C6: for every candidate listing path, the primary one included, and
\* every list L of records, a path that answers {"data": L} gives the same
\* records, and the same decision to stop or to continue, as that path
\* answering the bare list L (stated here for the lists that hold a record).
C6_DataMappingSameAsBareList ==
    (pc = "pair" /\ fetch.done /\ twin.done /\ swap.list # <<>>)
    => /\ fetch.idx = twin.idx
       /\ ExtractModels(variant, fetch.models_response).models
            = ExtractModels(variant, twin.models_response).models

\* The collection discovery ended with holds no record: nothing was
\* accepted, or what was accepted is an empty list.
ZeroRecords ==
    LET mr == fetch.models_response IN
      /\ fetch.done
      /\ \/ mr.t \in {"none", "text"}
         \/ IsList(mr) /\ Len(mr.v) = 0
         \/ IsDict(mr) /\ ~HasCollectionKey(mr)
         \/ IsDict(mr) /\ HasCollectionKey(mr) /\ GetModelsOrData(mr) = JList(<<>>)

\* C7: a discovery that ends with zero records is fatal: the process exits
\* with a non-zero status and no update POST is ever issued.
C7_ZeroRecordsFatal ==
    (pc \in {"run", "done"} /\ ZeroRecords)
    => (exit_code = 1 /\ \A i \in DOMAIN posts : posts[i] = <<>>)

\* A batch variant has exited after its last path answered the empty list.
C7_Witness ==
    /\ pc = "done" /\ exit_code = 1 /\ variant # "simple"
    /\ fetch.idx = Len(endpoints) /\ fetch.models_response = JList(<<>>)

\* Discovery stopped on a recognizable collection that holds zero records.
StoppedOnEmptyCollection ==
    LET mr == fetch.models_response
        c == IF IsDict(mr) /\ HasCollectionKey(mr) THEN GetModelsOrData(mr) ELSE mr
    IN  fetch.done /\ IsList(c) /\ Len(c.v) = 0

\* C8: the two fatal discovery cases are logged distinctly and both exit
\* with status 1: "fetch failed" when no path returned a recognizable
\* collection, "no models found" when a path returned a recognizable
\* collection with zero records.
C8_FatalCasesLoggedDistinctly ==
    /\ (pc = "done" /\ fetch.done /\ ~recognizable_seen)
       => (exit_code = 1 /\ FetchFailedMsg \in errors /\ NoModelsMsg \notin errors)
    /\ (pc = "done" /\ StoppedOnEmptyCollection)
       => (exit_code = 1 /\ NoModelsMsg \in errors /\ FetchFailedMsg \notin errors)

\* C9: whenever discovery yields at least one record the process exits with
\* code 0; exit code 1 occurs only on a fatal fetch failure.
C9_ExitZeroWithRecords ==
    (pc = "done" /\ Len(models) >= 1) => exit_code = 0

\* C10: with --no-batch, records are processed one at a time in listing
\* order: a record is not started before every earlier record's update
\* cycle is complete.
C10_NoBatchInOrder ==
    args["no_batch"].given =>
      \A i \in Records : \A j \in Records :
        (i < j /\ st[j] # "queued") => st[i] \in {"returned", "counted"}

(***************************************************************************)
(* Configuration resolution on its own: every command line of the          *)
(* variant's parser over a few values per flag, the empty string and 0     *)
(* among them, under every setting of the three environment variables.     *)
(***************************************************************************)
EnvChoices ==
    [OPENWEBUI_API_KEY : {Unset, [set |-> TRUE, val |-> "key-from-env"]},
     CF_ACCESS_CLIENT_ID : {Unset, [set |-> TRUE, val |-> "id-from-env"]},
     CF_ACCESS_CLIENT_SECRET : {Unset, [set |-> TRUE, val |-> "secret-from-env"]}]

FlagValues(flag) ==
    CASE flag = "workers" -> {Absent(flag), Given(0), Given(2)}
      [] flag \in SwitchFlags -> {Absent(flag), Given(TRUE)}
      [] OTHER -> {Absent(flag), Given(""), Given("from-" \o flag)}

FlagChoices(v, flag) ==
    IF flag \in Accepted(v) THEN FlagValues(flag) ELSE {Absent(flag)}

CommandLines(v) ==
    [url : FlagChoices(v, "url"), api_path : FlagChoices(v, "api_path"),
     api_key : FlagChoices(v, "api_key"), cf_id : FlagChoices(v, "cf_id"),
     cf_secret : FlagChoices(v, "cf_secret"),
     target_model : FlagChoices(v, "target_model"),
     debug : FlagChoices(v, "debug"), no_batch : FlagChoices(v, "no_batch"),
     workers : FlagChoices(v, "workers")]

ConfigInit ==
    /\ variant \in Variants
    /\ env \in EnvChoices
    /\ args \in CommandLines(variant)
    /\ config = DEFAULT_CONFIG(variant, env)
    /\ pc = "main"
    /\ fetch = FetchInit
    /\ models = <<>>
    /\ st = <<>>
    /\ ret = <<>>
    /\ posts = <<>>
    /\ successful_updates = 0
    /\ failed_updates = 0
    /\ skipped_updates = 0
    /\ progress_n = 0
    /\ errors = {}
    /\ exit_code = -1
    /\ recognizable_seen = FALSE
    /\ twin = FetchInit
    /\ swap = [path |-> 0, list |-> <<>>]
    /\ tmp = <<>>
    /\ first_ok = [idx |-> 0, resp |-> JNone]

ConfigNext == ParseArgs

ConfigSpec == ConfigInit /\ [][ConfigNext]_vars

\* The value a given flag stands for in the configuration.
FlagSetting(flag) ==
    CASE flag = "debug" -> TRUE
      [] flag = "no_batch" -> FALSE
      [] OTHER -> args[flag].val

\* C11: once the configuration is resolved, for every flag the variant
\* accepts: if the flag is given the configuration holds the given value,
\* and if it is absent the configuration holds the environment or default
\* value.
C11_EveryGivenFlagApplied ==
    pc # "main" =>
      \A flag \in Accepted(variant) :
        config[FlagKey[flag]] =
          IF args[flag].given THEN FlagSetting(flag)
          ELSE DEFAULT_CONFIG(variant, env)[FlagKey[flag]]

(***************************************************************************)
(* Discovery on its own, with the first recognizable answer kept.          *)
(***************************************************************************)
\* What a listing path may answer: nothing, a page, an error object, and
\* bare and wrapped lists, empty or holding a record.
DiscoveryAnswers(target) ==
    OtherAnswers(target)
      \cup {JDict([k \in {"data"} |-> JList(<<Pool(target)[2]>>)]),
            JDict([k \in {"data"} |-> JList(<<>>)])}

DiscoveryFetch ==
    /\ pc = "fetch"
    /\ \E resp \in DiscoveryAnswers(target_model) :
         /\ FetchAnswer(resp)
         /\ first_ok' = IF first_ok.idx = 0 /\ Recognizable(resp)
                        THEN [idx |-> fetch.idx + 1, resp |-> resp]
                        ELSE first_ok
    /\ UNCHANGED <<twin, swap, env>>

DiscoveryNext ==
    \/ ParseArgs
    \/ DiscoveryFetch
    \/ Extract

DiscoverySpec == Init /\ [][DiscoveryNext]_vars

\* The records of a recognizable collection.
RecordsOf(resp) == IF IsList(resp) THEN resp.v ELSE GetModelsOrData(resp).v

\* C12: discovery stops at the first path whose answer is a recognizable
\* collection (a JSON list, or a mapping with a models or data key): no
\* listing GET is issued after it, and the records used are its records
\* (stated here for the collections that hold a record).
C12_StopsAtFirstCollection ==
    (first_ok.idx # 0 /\ RecordsOf(first_ok.resp) # <<>>)
    => /\ fetch.idx = first_ok.idx
       /\ pc \in {"run", "done"} => models = RecordsOf(first_ok.resp)

\* update_single_model, or the simple loop body, is through with record i.
Dispatched(i) == st[i] \in {"returned", "counted"}

\* C13: a record gets at most two POSTs, the first to /models/model/update
\* and a second, to /models/update, if and only if the first answer fails
\* the success check; both carry the same payload and the record's id as
\* query parameter; and the record is reported successful if and only if
\* the answer to the last POST made is a JSON object whose id is the
\* record's id.
C13_TwoPathDispatch ==
    \A i \in Records :
      LET n == Len(posts[i]) IN
        /\ n <= 2
        /\ \A k \in 1..n : /\ posts[i][k].endpoint = update_endpoints[k]
                           /\ posts[i][k].id = models[i].v["id"]
        /\ n = 2 => /\ ~posts[i][1].confirmed
                    /\ posts[i][2].data = posts[i][1].data
        /\ (n = 1 /\ ~posts[i][1].confirmed) => st[i] = "retry"
        /\ (n >= 1 /\ Dispatched(i)) => (ret[i] = "True" <=> posts[i][n].confirmed)

\* One record was confirmed by the second path only, and another was
\* rejected by both.
C13_Witness ==
    /\ \E i \in Records : /\ Dispatched(i) /\ Len(posts[i]) = 2
                          /\ posts[i][2].confirmed /\ ret[i] = "True"
    /\ \E i \in Records : /\ Dispatched(i) /\ Len(posts[i]) = 2
                          /\ ~posts[i][2].confirmed /\ ret[i] = "False"

(***************************************************************************)
(* The update phase of the batch variants with progress_bar.update(1)      *)
(* taken apart: "self.n += n" is a read and a write of the shared bar,     *)
(* with no lock, and other workers may run between the two.  The phase is  *)
(* entered with the records of a bare list answered by /models.            *)
(***************************************************************************)
ProgressInit ==
    /\ variant \in {"remote", "serverside"}
    /\ env = NoEnv
    /\ args \in ArgChoices(variant)
    /\ config = ResolveConfig(variant, env, args)
    /\ pc = "run"
    /\ models \in Listings(TargetModel(variant, config)) \ {<<>>}
    /\ fetch = [idx |-> 1, models_response |-> JList(models), done |-> TRUE]
    /\ st = [i \in 1..Len(models) |-> "queued"]
    /\ ret = [i \in 1..Len(models) |-> "none"]
    /\ posts = [i \in 1..Len(models) |-> <<>>]
    /\ tmp = [i \in 1..Len(models) |-> 0]
    /\ successful_updates = 0
    /\ failed_updates = 0
    /\ skipped_updates = 0
    /\ progress_n = 0
    /\ errors = {}
    /\ exit_code = -1
    /\ recognizable_seen = TRUE
    /\ twin = FetchInit
    /\ swap = [path |-> 0, list |-> <<>>]
    /\ first_ok = [idx |-> 0, resp |-> JNone]

ProgressNext ==
    \/ \E i \in Records : UpdateSingleModelBegin(i, FALSE)
    \/ \E i \in Records : UpdateSingleModelRetry(i, FALSE)
    \/ \E i \in Records : ProgressWrite(i)
    \/ \E i \in Records : CollectResult(i)
    \/ Abort
    \/ Finish

ProgressSpec == ProgressInit /\ [][ProgressNext]_vars

\* C14: in parallel mode, once the batch has completed, the count of the
\* progress indicator equals the number of fetched records, whatever the
\* interleaving of the workers: no update of the shared indicator is lost.
C14_ProgressCountsEveryRecord ==
    (pc = "done" /\ exit_code = 0 /\ Parallel(variant, config))
    => progress_n = Len(models)

\* The records the orchestrator has counted.
Counted == {i \in Records : st[i] = "counted"}

\* C15: in parallel mode an exception raised while processing a fetched
\* record, whatever its shape, is caught and becomes one increment of the
\* failed counter: it never leaves the orchestrator, and every other
\* submitted record is still processed and counted.
C15_ExceptionBecomesOneFailure ==
    Parallel(variant, config) =>
      /\ pc # "crashed"
      /\ pc = "done" => \A i \in Records : st[i] = "counted"
      /\ failed_updates >= Cardinality({i \in Counted : ret[i] = "exc"})
      /\ successful_updates + skipped_updates + failed_updates = Cardinality(Counted)

\* C16: a run that has ended has reached the fatal exit of discovery, with
\* no record fetched and no POST made, or the final summary, with every
\* fetched record processed exactly once, by at most the two POSTs of the
\* fallback; and a run that has not ended can take a step.
C16_EndsInFatalExitOrSummary ==
    /\ pc = "done" =>
         \/ exit_code = 1 /\ models = <<>>
         \/ /\ exit_code = 0
            /\ \A i \in Records : st[i] = "counted" /\ Len(posts[i]) <= 2
    /\ pc # "done" => ENABLED Next

\* C17: in the batch-capable variants every counted record has incremented
\* exactly one of the three counters, and nothing else has: the counters
\* add up to the number of records the orchestrating thread has collected
\* in every state, and to the number of fetched records when the summary
\* is printed.
C17_CountersAddUp ==
    variant # "simple" =>
      /\ successful_updates + skipped_updates + failed_updates = Cardinality(Counted)
      /\ (pc = "done" /\ exit_code = 0) =>
            successful_updates + skipped_updates + failed_updates = Len(models)

\* The summary of a parallel run over three records, with each of the
\* three counters incremented.
C17_Witness ==
    /\ pc = "done" /\ exit_code = 0 /\ Parallel(variant, config)
    /\ Len(models) = 3
    /\ successful_updates = 1 /\ skipped_updates = 1 /\ failed_updates = 1

====
